---- MODULE Spec2Model ----
(***************************************************************************)
(* QCoroLocalSocket: the awaitables that wrap a QLocalSocket               *)
(* (waitForConnected, waitForDisconnected, read / readLine / readAll).     *)
(*                                                                         *)
(* One awaitable is followed through its life: construction by one of the  *)
(* QCoroLocalSocket methods, the co_await (await_ready, then await_suspend *)
(* when not ready), the signals of the socket and the timeout timer that   *)
(* the event loop delivers to it, and the resumption of the coroutine.     *)
(* The event loop holds pending events in a FIFO; processing a socket      *)
(* event updates the socket and emits the Qt signal, whose slots (the      *)
(* lambdas of await_suspend) run synchronously.                            *)
(***************************************************************************)
EXTENDS Integers, Sequences, FiniteSets, TLC

\* ------------------------------------------------------------------ bounds
MaxTime == 3            \* the clock of Spec runs from 0 to MaxTime
MaxEvents == 3          \* events the driver (socket owner) may cause
MaxQueue == 2           \* pending events in the event loop
MaxBuf == 2             \* bytes the device buffer holds
MaxDBusSteps == 10      \* timer periods the D-Bus example is followed for
ScenarioTimeout == 100  \* the timeout of the "driver never emits" scenario
ScenarioStart == 1      \* latest time at which that scenario awaits

ScenarioHorizon == ScenarioStart + ScenarioTimeout + 2

\* ------------------------------------------------------------ socket types
\* QLocalSocket::LocalSocketState
UnconnectedState == "Unconnected"
ConnectingState == "Connecting"
ConnectedState == "Connected"
ClosingState == "Closing"
LocalSocketState == {UnconnectedState, ConnectingState, ConnectedState, ClosingState}

Bytes == {"x", "\n"}

\* The socket as the awaitables see it through QPointer<QLocalSocket>:
\* valid = the QPointer is non-null, state = state(), buf = buffered bytes.
NullSocket == [valid |-> FALSE, state |-> UnconnectedState, buf |-> <<>>]

Sockets ==
    {NullSocket} \cup
    [valid : {TRUE}, state : LocalSocketState, buf : {<<>>, <<"x">>, <<"x", "\n">>}]

\* --------------------------------------------------------- timeout values
\* std::chrono::milliseconds::count() is a 64-bit integer.  It is written
\* q * 2^32 + r with -2^31 <= r < 2^31, so that the conversion to the 32-bit
\* int keeps r and drops q.
Millis(q, r) == [q |-> q, r |-> r]

ChronoCount_toInt(ms) == ms.r

\* the value the caller passed is zero or negative
NonPositive(ms) == ms.q < 0 \/ (ms.q = 0 /\ ms.r <= 0)

\* ------------------------------------------------------------- the result
NoResult == [status |-> "pending", data |-> <<>>]

\* ---------------------------------------------------------- the awaitable
\* mConn / mStateConn: the connection is live; mSignal: the signal mConn is
\* connected to; timerActive / deadline: the timeout timer; connects and
\* timerStarts count the QObject::connect and QTimer::start calls.
NoOp ==
    [kind |-> "none", timeout_msecs |-> 0, readFn |-> "", maxSize |-> 0,
     phase |-> "Idle", mConn |-> FALSE, mSignal |-> "", mStateConn |-> FALSE,
     timerActive |-> FALSE, deadline |-> 0, mTimedOut |-> FALSE,
     connects |-> 0, timerStarts |-> 0, suspensions |-> 0,
     resumeCount |-> 0, result |-> NoResult]

\* dbus: the D-Bus example program (its timers and its dbusWorker coroutines)
VARIABLES sock, op, queue, now, emitted, probe, dbus

vars == <<sock, op, queue, now, emitted, probe, dbus>>

\* ------------------------------------------- WaitOperationBase<QLocalSocket>
\* variant: the awaited value only tells a timeout from the rest
WaitOperationBase_await_resume_flag(o, s) ==
    [status |-> IF o.mTimedOut THEN "timeout" ELSE ConnectedState, data |-> <<>>]

\* The coroutine continues: await_resume() produces the awaited value, which
\* is a failure indicator (timeout, invalid object) or the reached state.
WaitOperationBase_await_resume(o, s) ==
    IF o.mTimedOut THEN [status |-> "timeout", data |-> <<>>]
    ELSE IF ~s.valid THEN [status |-> "invalid", data |-> <<>>]
    ELSE [status |-> s.state, data |-> <<>>]

\* QIODevice::readAll / read(maxSize) / readLine(maxSize) on the buffer
IndexOfNewline(buf) ==
    IF \E i \in 1..Len(buf) : buf[i] = "\n"
    THEN CHOOSE i \in 1..Len(buf) : buf[i] = "\n" /\ \A j \in 1..(i - 1) : buf[j] # "\n"
    ELSE Len(buf)

Min(a, b) == IF a < b THEN a ELSE b

ReadFn(fn, maxSize, buf) ==
    CASE fn = "readAll" -> buf
      [] fn = "read" -> SubSeq(buf, 1, Min(maxSize, Len(buf)))
      [] fn = "readLine" ->
            SubSeq(buf, 1, IF maxSize = 0 THEN IndexOfNewline(buf)
                           ELSE Min(maxSize, IndexOfNewline(buf)))

\* await_resume() of a read: the requested read runs against the device
ReadOperation_await_resume(o, s) ==
    IF ~s.valid THEN [status |-> "invalid", data |-> <<>>]
    ELSE LET d == ReadFn(o.readFn, o.maxSize, s.buf)
         IN  [status |-> IF d = <<>> THEN "empty" ELSE "data", data |-> d]

await_resume(o, s) ==
    IF o.kind = "Read" THEN ReadOperation_await_resume(o, s)
    ELSE WaitOperationBase_await_resume(o, s)

\* awaitingCoroutine.resume(): the continuation runs
coroutine_resume(o, s) ==
    [o EXCEPT !.resumeCount = @ + 1, !.result = await_resume(o, s)]

\* WaitOperationBase::resume: stop the timer, drop the connection, and
\* continue the coroutine unless the operation has completed already.
resume(o, s) ==
    LET torn == [o EXCEPT !.timerActive = FALSE, !.mConn = FALSE]
    IN  IF o.phase = "Suspended"
        THEN coroutine_resume([torn EXCEPT !.phase = "Resumed"], s)
        ELSE torn

\* WaitOperationBase::startTimeoutTimer: zero or negative disables the timer
startTimeoutTimer(o, t) ==
    IF o.timeout_msecs > 0
    THEN [o EXCEPT !.timerActive = TRUE, !.deadline = t + o.timeout_msecs,
                   !.timerStarts = @ + 1]
    ELSE o

\* the slot of the timer's timeout signal
onTimeout(o, s) == resume([o EXCEPT !.mTimedOut = TRUE], s)

\* WaitOperationBase(socket, timeout_msecs)
WaitOperationBase(kind, timeout_msecs) ==
    [NoOp EXCEPT !.kind = kind, !.timeout_msecs = timeout_msecs]

\* --------------------------------------------- WaitForConnectedOperation
WaitForConnectedOperation(timeout_msecs) ==
    WaitOperationBase("WaitForConnected", timeout_msecs)

\* variant: the null check is missing
WaitForConnectedOperation_await_ready_nonull(o, s) ==
    s.state = ConnectedState

WaitForConnectedOperation_await_ready(o, s) ==
    ~s.valid \/ s.state = ConnectedState

\* variant: the Closing case continues the coroutine itself
WaitForConnectedOperation_onStateChanged_direct(o, newState, s) ==
    CASE newState = UnconnectedState -> o
      [] newState = ConnectingState -> o
      [] newState = ClosingState -> coroutine_resume(o, s)
      [] newState = ConnectedState -> resume(o, s)

\* variant: the Connecting case falls through to the resume below it
WaitForConnectedOperation_onStateChanged_fallthrough(o, newState, s) ==
    CASE newState = UnconnectedState -> o
      [] newState = ConnectingState -> resume(o, s)
      [] newState = ClosingState -> resume(o, s)
      [] newState = ConnectedState -> resume(o, s)

\* variant: the Connected case breaks like the two above it
WaitForConnectedOperation_onStateChanged_noconnected(o, newState, s) ==
    CASE newState = UnconnectedState -> o
      [] newState = ConnectingState -> o
      [] newState = ClosingState -> resume(o, s)
      [] newState = ConnectedState -> o

\* the lambda connected to QLocalSocket::stateChanged
WaitForConnectedOperation_onStateChanged(o, newState, s) ==
    CASE newState = UnconnectedState -> o
      [] newState = ConnectingState -> o
      [] newState = ClosingState -> resume(o, s)
      [] newState = ConnectedState -> resume(o, s)

\* variant: the timer is started and the connection is not made
WaitForConnectedOperation_await_suspend_timeronly(o, t) ==
    startTimeoutTimer(o, t)

WaitForConnectedOperation_await_suspend(o, t) ==
    startTimeoutTimer([o EXCEPT !.mConn = TRUE, !.mSignal = "stateChanged",
                                !.connects = @ + 1], t)

\* ------------------------------------------ WaitForDisconnectedOperation
WaitForDisconnectedOperation(timeout_msecs) ==
    WaitOperationBase("WaitForDisconnected", timeout_msecs)

\* variant: compares with the state of the class above it
WaitForDisconnectedOperation_await_ready_connected(o, s) ==
    ~s.valid \/ s.state = ConnectedState

WaitForDisconnectedOperation_await_ready(o, s) ==
    ~s.valid \/ s.state = UnconnectedState

\* variant: the lambda continues the coroutine itself
WaitForDisconnectedOperation_onDisconnected_direct(o, s) == coroutine_resume(o, s)

\* the lambda connected to QLocalSocket::disconnected
WaitForDisconnectedOperation_onDisconnected(o, s) == resume(o, s)

\* variant: the timeout timer is not started
WaitForDisconnectedOperation_await_suspend_notimer(o, t) ==
    [o EXCEPT !.mConn = TRUE, !.mSignal = "disconnected", !.connects = @ + 1]

\* variant: connected to stateChanged, as the class above it
WaitForDisconnectedOperation_await_suspend_stateChanged(o, t) ==
    startTimeoutTimer([o EXCEPT !.mConn = TRUE, !.mSignal = "stateChanged",
                                !.connects = @ + 1], t)

WaitForDisconnectedOperation_await_suspend(o, t) ==
    startTimeoutTimer([o EXCEPT !.mConn = TRUE, !.mSignal = "disconnected",
                                !.connects = @ + 1], t)

\* ------------------------------------------ QCoroIODevice::ReadOperation
QCoroIODevice_ReadOperation(fn, maxSize) ==
    [NoOp EXCEPT !.kind = "Read", !.readFn = fn, !.maxSize = maxSize]

\* ready when the device is gone or holds data
QCoroIODevice_ReadOperation_await_ready(o, s) ==
    ~s.valid \/ Len(s.buf) > 0

\* subscribes finish() to the new-data notification
QCoroIODevice_ReadOperation_await_suspend(o) ==
    [o EXCEPT !.mConn = TRUE, !.mSignal = "readyRead", !.connects = @ + 1]

\* drops the data subscription and continues the coroutine, once
QCoroIODevice_ReadOperation_finish(o, s) ==
    LET torn == [o EXCEPT !.mConn = FALSE]
    IN  IF o.phase = "Suspended"
        THEN coroutine_resume([torn EXCEPT !.phase = "Resumed"], s)
        ELSE torn

\* ------------------------------------- QCoroLocalSocket::ReadOperation
\* variant: only the check of the base class
ReadOperation_await_ready_baseonly(o, s) ==
    QCoroIODevice_ReadOperation_await_ready(o, s)

ReadOperation_await_ready(o, s) ==
    QCoroIODevice_ReadOperation_await_ready(o, s) \/ s.state = UnconnectedState

\* variant: the override drops its connection and forgets the base class
ReadOperation_finish_nobase(o, s) == [o EXCEPT !.mStateConn = FALSE]

\* variant: the override leaves its own connection in place
ReadOperation_finish_keepstate(o, s) == QCoroIODevice_ReadOperation_finish(o, s)

ReadOperation_finish(o, s) ==
    QCoroIODevice_ReadOperation_finish([o EXCEPT !.mStateConn = FALSE], s)

\* variant: the lambda also finishes when the device is closing
ReadOperation_onStateChanged_closing(o, s) ==
    IF s.state \in {UnconnectedState, ClosingState} THEN ReadOperation_finish(o, s) ELSE o

\* the lambda connected to QLocalSocket::stateChanged; it ignores the
\* signal's argument and reads the state of the device
ReadOperation_onStateChanged(o, s) ==
    IF s.state = UnconnectedState THEN ReadOperation_finish(o, s) ELSE o

\* variant: the connection to stateChanged is not made
ReadOperation_await_suspend_nostateconn(o) ==
    QCoroIODevice_ReadOperation_await_suspend(o)

ReadOperation_await_suspend(o) ==
    [QCoroIODevice_ReadOperation_await_suspend(o)
        EXCEPT !.mStateConn = TRUE, !.connects = @ + 1]

\* ------------------------------------------------- QCoroLocalSocket API
DefaultTimeout == 30000

waitForConnected(timeout_msecs) == WaitForConnectedOperation(timeout_msecs)

waitForConnected_chrono(timeout) == waitForConnected(ChronoCount_toInt(timeout))

waitForDisconnected(timeout_msecs) == WaitForDisconnectedOperation(timeout_msecs)

waitForDisconnected_chrono(timeout) == waitForDisconnected(ChronoCount_toInt(timeout))

readAll == QCoroIODevice_ReadOperation("readAll", 0)

read(maxSize) == QCoroIODevice_ReadOperation("read", maxSize)

readLine(maxSize) == QCoroIODevice_ReadOperation("readLine", maxSize)

\* dispatch on the dynamic type of the awaitable
await_ready(o, s) ==
    CASE o.kind = "WaitForConnected" -> WaitForConnectedOperation_await_ready(o, s)
      [] o.kind = "WaitForDisconnected" -> WaitForDisconnectedOperation_await_ready(o, s)
      [] o.kind = "Read" -> ReadOperation_await_ready(o, s)

await_suspend(o, t) ==
    CASE o.kind = "WaitForConnected" -> WaitForConnectedOperation_await_suspend(o, t)
      [] o.kind = "WaitForDisconnected" -> WaitForDisconnectedOperation_await_suspend(o, t)
      [] o.kind = "Read" -> ReadOperation_await_suspend(o)

\* the slot behind mConn, and the slot behind mStateConn
mConn_slot(o, arg, s) ==
    CASE o.kind = "WaitForConnected" -> WaitForConnectedOperation_onStateChanged(o, arg, s)
      [] o.kind = "WaitForDisconnected" -> WaitForDisconnectedOperation_onDisconnected(o, s)
      [] o.kind = "Read" -> ReadOperation_finish(o, s)

\* a signal of the socket is emitted: the slots connected to it run
emit(o, signal, arg, s) ==
    LET o1 == IF o.mConn /\ o.mSignal = signal THEN mConn_slot(o, arg, s) ELSE o
    IN  IF signal = "stateChanged" /\ o1.mStateConn
        THEN ReadOperation_onStateChanged(o1, s)
        ELSE o1

\* ---------------------------------------------------------------- inputs
IntTimeouts == {-1, 0, 2}

ChronoTimeouts == {Millis(0, 1), Millis(-1, 1)}

Event(type, arg) == [type |-> type, arg |-> arg]

TimeoutEvent == Event("timeout", "")

\* via: the method that made the awaitable; connect: what the connect
\* request of connectToServer did
NoProbe ==
    [snap |-> NullSocket, request |-> Millis(0, 0), wasReady |-> FALSE,
     awaitedAt |-> 0, resumedBy |-> Event("", ""), resumedAt |-> 0,
     via |-> "", connect |-> ""]

Pending(type) == Cardinality({i \in 1..Len(queue) : queue[i].type = type})

\* ------------------------------------------------ the D-Bus example
TickInterval == 400

DBusInterval == 2000

\* what the remote side answers: a value or an error (name and message)
Replies ==
    {[outcome |-> "value", value |-> "PONG", name |-> "", message |-> ""],
     [outcome |-> "error", value |-> "",
      name |-> "org.freedesktop.DBus.Error.NoReply", message |-> "no reply"],
     [outcome |-> "error", value |-> "",
      name |-> "org.freedesktop.DBus.Error.ServiceUnknown", message |-> "unknown service"]}

NoReply == [outcome |-> "", value |-> "", name |-> "", message |-> ""]

\* QDBusReply<QString>(message): the decoded reply, which carries the
\* value or an error with its name and message
QDBusReply(r) ==
    [value |-> IF r.outcome = "value" THEN r.value ELSE "",
     error |-> [valid |-> r.outcome = "error", name |-> r.name, message |-> r.message]]

NoResponse == QDBusReply(NoReply)

\* variant: the awaitable never reports ready
QDBusPendingCall_await_ready_never(r) == FALSE

\* the awaitable of a pending call: ready when the reply has finished
QDBusPendingCall_await_ready(r) == r.outcome # ""

\* variant: the warning is printed for the replies without an error
dbusWorker_afterAwait_inverted(w, r) ==
    LET response == QDBusReply(r)
    IN  [w EXCEPT !.pc = "done", !.response = response,
                  !.warned = IF ~response.error.valid THEN response.error.message ELSE "-",
                  !.printed = response.value]

\* dbusWorker after the co_await: the reply is decoded, an error is
\* reported with its message, and the value is printed
dbusWorker_afterAwait(w, r) ==
    LET response == QDBusReply(r)
    IN  [w EXCEPT !.pc = "done", !.response = response,
                  !.warned = IF response.error.valid THEN response.error.message ELSE "-",
                  !.printed = response.value]

\* dbusWorker up to the co_await on the pending call that asyncCall made
dbusWorker_start(r) ==
    LET w == [pc |-> "awaiting", reply |-> r, readyAtAwait |-> FALSE,
              connected |-> FALSE, connects |-> 0, suspensions |-> 0, resumes |-> 0,
              response |-> NoResponse, warned |-> "-", printed |-> "-"]
    IN  IF QDBusPendingCall_await_ready(r)
        THEN dbusWorker_afterAwait([w EXCEPT !.readyAtAwait = TRUE], r)
        ELSE [w EXCEPT !.connected = TRUE, !.connects = 1, !.suspensions = 1]

\* the slot of the finished notification: the coroutine continues
QDBusPendingCall_onFinished(w, r) ==
    dbusWorker_afterAwait([w EXCEPT !.reply = r, !.connected = FALSE,
                                    !.resumes = @ + 1], r)

NoDBus == [steps |-> 0, tickDue |-> FALSE, dbusDue |-> FALSE, ticks |-> 0, workers |-> <<>>]

\* a timer period passes; both timers may become due at the same time
DBusAdvance ==
    /\ dbus.steps < MaxDBusSteps
    /\ ~dbus.tickDue /\ ~dbus.dbusDue
    /\ dbus' = [dbus EXCEPT !.steps = @ + 1,
                            !.tickDue = TRUE,
                            !.dbusDue = (((dbus.steps + 1) * TickInterval) % DBusInterval = 0)]
    /\ UNCHANGED <<sock, op, queue, now, emitted, probe>>

\* tickTimer's timeout: "Tick!"
TickTimerTimeout ==
    /\ dbus.tickDue
    /\ dbus' = [dbus EXCEPT !.tickDue = FALSE, !.ticks = @ + 1]
    /\ UNCHANGED <<sock, op, queue, now, emitted, probe>>

\* dbusTimer's timeout starts a dbusWorker; the pending call that asyncCall
\* returns is unfinished, or finished already
DBusTimerTimeout ==
    /\ dbus.dbusDue
    /\ \E r \in Replies \cup {NoReply} :
          dbus' = [dbus EXCEPT !.dbusDue = FALSE,
                              !.workers = Append(@, dbusWorker_start(r))]
    /\ UNCHANGED <<sock, op, queue, now, emitted, probe>>

\* the reply of a pending call arrives and its finished notification is
\* delivered
ReplyFinished ==
    /\ \E i \in 1..Len(dbus.workers), r \in Replies :
          /\ dbus.workers[i].pc = "awaiting"
          /\ dbus.workers[i].connected
          /\ dbus' = [dbus EXCEPT !.workers[i] = QDBusPendingCall_onFinished(@, r)]
    /\ UNCHANGED <<sock, op, queue, now, emitted, probe>>

NextDBus ==
    \/ DBusAdvance
    \/ TickTimerTimeout
    \/ DBusTimerTimeout
    \/ ReplyFinished

\* ------------------------------------------------------------------ Init
Init ==
    /\ sock \in Sockets
    /\ op = NoOp
    /\ queue = <<>>
    /\ now = 0
    /\ emitted = 0
    /\ probe = NoProbe
    /\ dbus = NoDBus

\* The state after a slot has run: when the continuation of a read ran in
\* this step, the bytes it read have left the buffer.
Settle(newSock, newOp, cause) ==
    LET ran == newOp.result # op.result
    IN  /\ op' = newOp
        /\ sock' = IF ran /\ newOp.kind = "Read" /\ newSock.valid
                   THEN [newSock EXCEPT !.buf = SubSeq(@, Len(newOp.result.data) + 1, Len(@))]
                   ELSE newSock
        /\ probe' = IF newOp.resumeCount > op.resumeCount
                    THEN [probe EXCEPT !.resumedBy = cause, !.resumedAt = now]
                    ELSE probe

\* co_await o: await_ready(), then either await_resume() at once or
\* await_suspend() with the coroutine suspended
co_await_on(o, request, s, via, connect) ==
    /\ op.kind = "none"
    /\ LET ready == await_ready(o, s)
           newOp == IF ready
                    THEN [o EXCEPT !.result = await_resume(o, s)]
                    ELSE await_suspend([o EXCEPT !.phase = "Suspended",
                                                !.suspensions = @ + 1], now)
       IN  /\ op' = newOp
           /\ sock' = IF ready /\ o.kind = "Read" /\ s.valid
                      THEN [s EXCEPT !.buf = SubSeq(@, Len(newOp.result.data) + 1, Len(@))]
                      ELSE s
           /\ probe' = [NoProbe EXCEPT !.snap = s, !.request = request,
                                       !.wasReady = ready, !.awaitedAt = now,
                                       !.via = via, !.connect = connect]
    /\ UNCHANGED <<queue, now, emitted, dbus>>

co_await(o, request) == co_await_on(o, request, sock, "", "")

AwaitWaitForConnected(t) == co_await(waitForConnected(t), Millis(0, t))

AwaitWaitForConnectedChrono(ms) == co_await(waitForConnected_chrono(ms), ms)

AwaitWaitForDisconnected(t) == co_await(waitForDisconnected(t), Millis(0, t))

AwaitWaitForDisconnectedChrono(ms) == co_await(waitForDisconnected_chrono(ms), ms)

AwaitReadAll == co_await(readAll, Millis(0, 0))

AwaitRead(maxSize) == co_await(read(maxSize), Millis(0, 0))

AwaitReadLine(maxSize) == co_await(readLine(maxSize), Millis(0, 0))

\* ------------------------------------------------------ connectToServer
\* QLocalSocket::connectToServer returns at once: the request failed and
\* the socket is Unconnected, or the connection is in progress, or it is
\* established already.
ConnectOutcomes == {"failed", "connecting", "connected"}

QLocalSocket_connectToServer(s, outcome) ==
    [s EXCEPT !.state = CASE outcome = "failed" -> UnconnectedState
                          [] outcome = "connecting" -> ConnectingState
                          [] outcome = "connected" -> ConnectedState]

\* co_await connectToServer(...): the request, then waitForConnected() with
\* the default timeout
ConnectToServer(outcome) ==
    /\ sock.valid
    /\ co_await_on(waitForConnected(DefaultTimeout), Millis(0, DefaultTimeout),
                   QLocalSocket_connectToServer(sock, outcome),
                   "connectToServer", outcome)

\* connectToServer on a QCoroLocalSocket whose device is null calls a
\* member of a null pointer: the call faults, or it falls through to
\* waitForConnected(), which is ready on a null device.
Faulted == [NoOp EXCEPT !.kind = "fault"]

ConnectToServerOnNull ==
    /\ ~sock.valid
    /\ \/ co_await_on(waitForConnected(DefaultTimeout), Millis(0, DefaultTimeout),
                      sock, "connectToServer", "null")
       \/ /\ op.kind = "none"
          /\ op' = Faulted
          /\ probe' = [NoProbe EXCEPT !.via = "connectToServer", !.connect = "null"]
          /\ UNCHANGED <<sock, queue, now, emitted, dbus>>

\* ------------------------------------------------- the driver (reactor)
\* The driver acts on the socket once the awaitable exists; what it did
\* before is the socket state of Init.
Emit(e) ==
    /\ op.kind # "none"
    /\ sock.valid
    /\ emitted < MaxEvents
    /\ Len(queue) < MaxQueue
    /\ queue' = Append(queue, e)
    /\ emitted' = emitted + 1
    /\ UNCHANGED <<sock, op, now, probe, dbus>>

EmitStateChanged(newState) == Emit(Event("stateChanged", newState))

EmitDisconnected == Emit(Event("disconnected", ""))

EmitReadyRead(b) ==
    /\ Len(sock.buf) + Pending("readyRead") < MaxBuf
    /\ Emit(Event("readyRead", b))

\* the owner deletes the socket: its connections go away with it, and a
\* suspended awaitable is resumed through its single resume path
onDestroyed(o, s) ==
    LET gone == [o EXCEPT !.mConn = FALSE, !.mStateConn = FALSE]
    IN  IF o.phase # "Suspended" THEN o
        ELSE IF o.kind = "Read" THEN ReadOperation_finish(gone, s)
        ELSE resume(gone, s)

DestroySocket ==
    /\ op.kind # "none"
    /\ sock.valid
    /\ emitted < MaxEvents
    /\ emitted' = emitted + 1
    /\ Settle(NullSocket, onDestroyed(op, NullSocket), Event("destroyed", ""))
    /\ UNCHANGED <<queue, now, dbus>>

\* the single-shot timer reaches its deadline: its event becomes pending
TimerExpire ==
    /\ op.timerActive
    /\ now >= op.deadline
    /\ Pending("timeout") = 0
    /\ queue' = Append(queue, TimeoutEvent)
    /\ UNCHANGED <<sock, op, now, emitted, probe, dbus>>

\* time passes only when the event loop is idle and no timer is due
TickUpTo(limit) ==
    /\ now < limit
    /\ queue = <<>>
    /\ ~(op.timerActive /\ now >= op.deadline)
    /\ now' = now + 1
    /\ UNCHANGED <<sock, op, queue, emitted, probe, dbus>>

\* Under Spec the clock is followed only while a timeout timer runs: without
\* a timer nothing reads it.
Tick ==
    /\ op.timerActive
    /\ TickUpTo(MaxTime)

\* --------------------------------------- the event loop delivers events
Head_is(type) == queue # <<>> /\ Head(queue).type = type

DeliverStateChanged ==
    /\ Head_is("stateChanged")
    /\ queue' = Tail(queue)
    /\ LET e == Head(queue)
           s == IF sock.valid THEN [sock EXCEPT !.state = e.arg] ELSE sock
           newOp == IF sock.valid THEN emit(op, "stateChanged", e.arg, s) ELSE op
       IN  Settle(s, newOp, e)
    /\ UNCHANGED <<now, emitted, dbus>>

DeliverDisconnected ==
    /\ Head_is("disconnected")
    /\ queue' = Tail(queue)
    /\ LET newOp == IF sock.valid THEN emit(op, "disconnected", "", sock) ELSE op
       IN  Settle(sock, newOp, Head(queue))
    /\ UNCHANGED <<now, emitted, dbus>>

DeliverReadyRead ==
    /\ Head_is("readyRead")
    /\ queue' = Tail(queue)
    /\ LET e == Head(queue)
           s == IF sock.valid THEN [sock EXCEPT !.buf = Append(@, e.arg)] ELSE sock
           newOp == IF sock.valid THEN emit(op, "readyRead", e.arg, s) ELSE op
       IN  Settle(s, newOp, e)
    /\ UNCHANGED <<now, emitted, dbus>>

DeliverTimeout ==
    /\ Head_is("timeout")
    /\ queue' = Tail(queue)
    /\ Settle(sock, IF op.timerActive THEN onTimeout(op, sock) ELSE op, Head(queue))
    /\ UNCHANGED <<now, emitted, dbus>>

Deliver ==
    \/ DeliverStateChanged
    \/ DeliverDisconnected
    \/ DeliverReadyRead
    \/ DeliverTimeout

Next ==
    \/ \E t \in IntTimeouts : AwaitWaitForConnected(t)
    \/ \E ms \in ChronoTimeouts : AwaitWaitForConnectedChrono(ms)
    \/ \E t \in IntTimeouts : AwaitWaitForDisconnected(t)
    \/ \E ms \in ChronoTimeouts : AwaitWaitForDisconnectedChrono(ms)
    \/ AwaitReadAll
    \/ AwaitRead(1)
    \/ AwaitReadLine(0)
    \/ \E outcome \in ConnectOutcomes : ConnectToServer(outcome)
    \/ ConnectToServerOnNull
    \/ \E st \in LocalSocketState : EmitStateChanged(st)
    \/ EmitDisconnected
    \/ \E b \in Bytes : EmitReadyRead(b)
    \/ DestroySocket
    \/ TimerExpire
    \/ Tick
    \/ Deliver

Spec == Init /\ [][Next]_vars

\* ------------------------- the scenario "the driver never emits any event"
ScenarioAwaitWaitForConnected ==
    co_await(waitForConnected(ScenarioTimeout), Millis(0, ScenarioTimeout))

ScenarioAwaitWaitForConnectedChrono ==
    co_await(waitForConnected_chrono(Millis(0, ScenarioTimeout)), Millis(0, ScenarioTimeout))

ScenarioAwaitWaitForDisconnected ==
    co_await(waitForDisconnected(ScenarioTimeout), Millis(0, ScenarioTimeout))

ScenarioAwaitWaitForDisconnectedChrono ==
    co_await(waitForDisconnected_chrono(Millis(0, ScenarioTimeout)), Millis(0, ScenarioTimeout))

\* Under SpecTimeout the clock runs freely; the co_await happens at a time
\* up to ScenarioStart.
TickLong ==
    /\ op.kind = "none" => now < ScenarioStart
    /\ TickUpTo(ScenarioHorizon)

NextTimeout ==
    \/ ScenarioAwaitWaitForConnected
    \/ ScenarioAwaitWaitForConnectedChrono
    \/ ScenarioAwaitWaitForDisconnected
    \/ ScenarioAwaitWaitForDisconnectedChrono
    \/ TimerExpire
    \/ DeliverTimeout
    \/ TickLong

SpecTimeout == Init /\ [][NextTimeout]_vars

SpecDBus == Init /\ [][NextDBus]_vars

\* ------- the scenario "the driver emits Connecting and then Connected"
ScenarioEmitConnecting ==
    /\ emitted = 0
    /\ EmitStateChanged(ConnectingState)

ScenarioEmitConnected ==
    /\ emitted = 1
    /\ EmitStateChanged(ConnectedState)

NextConnect ==
    \/ \E outcome \in ConnectOutcomes : ConnectToServer(outcome)
    \/ \E t \in IntTimeouts : AwaitWaitForConnected(t)
    \/ ScenarioEmitConnecting
    \/ ScenarioEmitConnected
    \/ DeliverStateChanged
    \/ TimerExpire
    \/ DeliverTimeout
    \/ Tick

SpecConnect == Init /\ [][NextConnect]_vars

TypeOK ==
    /\ sock \in [valid : BOOLEAN, state : LocalSocketState, buf : Seq(Bytes)]
    /\ op.resumeCount \in 0..MaxEvents
    /\ now \in 0..ScenarioHorizon

\* ----------------------------------------------------------- properties
WaitKinds == {"WaitForConnected", "WaitForDisconnected"}

\* C1: an awaitable that has suspended is resumed at most once over every
\* sequence of deliveries, and exactly once when it has left the Suspended
\* phase; an event delivered after the resumption (the timeout after the
\* primary event or the reverse, pending in the same tick) resumes nothing.
C1_ResumeExactlyOnce ==
    /\ op.resumeCount <= op.suspensions
    /\ op.suspensions <= 1
    /\ op.phase = "Suspended" => op.resumeCount = 0
    /\ op.phase = "Resumed" => op.resumeCount = 1

\* the timeout won at its deadline, and the Connected notification that
\* was pending in the same tick has been delivered since
C1_Witness ==
    /\ op.kind = "WaitForConnected"
    /\ op.resumeCount = 1
    /\ probe.resumedBy = TimeoutEvent
    /\ probe.resumedAt = now
    /\ probe.snap.state # ConnectedState
    /\ sock.valid /\ sock.state = ConnectedState
    /\ queue = <<>>

C3_Delivery ==
    /\ Head_is("stateChanged")
    /\ queue' = Tail(queue)
    /\ sock.valid
    /\ op.kind = "WaitForConnected"
    /\ op.phase = "Suspended"

C3_StateChangedResumes ==
    [][C3_Delivery =>
          IF Head(queue).arg \in {UnconnectedState, ConnectingState}
          THEN op' = op /\ op'.mConn /\ (op.timeout_msecs > 0 => op'.timerActive)
          ELSE /\ op'.phase = "Resumed"
               /\ op'.resumeCount = op.resumeCount + 1
               /\ probe'.resumedBy = Head(queue)]_vars

\* a Connecting notification has been delivered and the awaitable is still
\* suspended with its subscription and its timer
C3_Witness ==
    /\ op.kind = "WaitForConnected"
    /\ op.phase = "Suspended"
    /\ probe.snap.state = UnconnectedState
    /\ sock.state = ConnectingState
    /\ op.mConn /\ op.timerActive

\* C4: a waitForConnected resumed by a Closing notification yields a result
\* that is a failure, different from the result of a resumption by a
\* Connected notification.
C4_ClosingIsFailure ==
    (op.kind = "WaitForConnected" /\ op.resumeCount >= 1) =>
        /\ probe.resumedBy = Event("stateChanged", ClosingState) =>
               op.result.status \notin {"pending", ConnectedState}
        /\ probe.resumedBy = Event("stateChanged", ConnectedState) =>
               op.result.status = ConnectedState

C4_Witness ==
    /\ op.kind = "WaitForConnected"
    /\ op.resumeCount = 1
    /\ probe.resumedBy = Event("stateChanged", ClosingState)
    /\ op.result.status = ClosingState

\* C5: a wait awaited on a socket that is invalid or already in the target
\* state (Connected for waitForConnected, Unconnected for
\* waitForDisconnected) never suspends, never connects to a signal and never
\* starts a timer, whatever happens afterwards.
C5_TargetAtAwait ==
    \/ ~probe.snap.valid
    \/ op.kind = "WaitForConnected" /\ probe.snap.state = ConnectedState
    \/ op.kind = "WaitForDisconnected" /\ probe.snap.state = UnconnectedState

C5_ReadyCreatesNothing ==
    (op.kind \in WaitKinds /\ C5_TargetAtAwait) =>
        /\ op.suspensions = 0 /\ op.phase = "Idle" /\ op.resumeCount = 0
        /\ op.connects = 0 /\ ~op.mConn /\ ~op.mStateConn
        /\ op.timerStarts = 0 /\ ~op.timerActive

\* a waitForDisconnected with a timeout on an Unconnected socket, after the
\* driver has delivered an event to the socket
C5_Witness ==
    /\ op.kind = "WaitForDisconnected"
    /\ probe.snap.valid /\ probe.snap.state = UnconnectedState
    /\ op.timeout_msecs > 0
    /\ op.result.status = UnconnectedState
    /\ emitted >= 1 /\ queue = <<>>

\* C6: waitForConnected is ready exactly when the socket is invalid or its
\* state is Connected.
C6_ConnectedReadyCheck ==
    op.kind = "WaitForConnected" =>
        (probe.wasReady <=> (~probe.snap.valid \/ probe.snap.state = ConnectedState))

C6_Witness ==
    /\ op.kind = "WaitForConnected"
    /\ ~probe.snap.valid
    /\ probe.wasReady
    /\ op.suspensions = 0

\* C7: waitForDisconnected is ready exactly when the socket is invalid or
\* Unconnected, and once suspended no stateChanged and no readyRead
\* notification resumes it: a resumption comes from the disconnected
\* notification or the timeout (or the destruction of the socket, C2).
C7_DisconnectedOnly ==
    op.kind = "WaitForDisconnected" =>
        /\ probe.wasReady <=> (~probe.snap.valid \/ probe.snap.state = UnconnectedState)
        /\ op.resumeCount >= 1 =>
               probe.resumedBy.type \in {"disconnected", "timeout", "destroyed"}
        /\ (op.suspensions = 1 /\ sock.valid /\ ~op.mTimedOut
              /\ probe.resumedBy.type # "disconnected") => op.phase = "Suspended"

\* the socket has gone to Unconnected by a stateChanged notification and
\* the awaitable is still suspended
C7_Witness ==
    /\ op.kind = "WaitForDisconnected"
    /\ op.phase = "Suspended"
    /\ probe.snap.state = ConnectedState
    /\ sock.valid /\ sock.state = UnconnectedState
    /\ queue = <<>>

\* C8: with the timeout of the scenario and no event from the driver, a
\* suspended wait is resumed by the timeout when exactly that time has
\* passed (not before, and time does not pass beyond it while the wait is
\* suspended), the result is the timeout failure, and the connection to the
\* socket's signal is gone when the coroutine continues.
C8_TimeoutScenario ==
    (op.kind \in WaitKinds /\ op.suspensions = 1) =>
        /\ op.phase = "Suspended" =>
               /\ now - probe.awaitedAt <= ScenarioTimeout
               /\ op.mConn /\ op.timerActive
        /\ op.phase = "Resumed" =>
               /\ op.result.status = "timeout"
               /\ probe.resumedAt - probe.awaitedAt >= ScenarioTimeout
               /\ probe.resumedAt - probe.awaitedAt < ScenarioTimeout + 1
               /\ ~op.mConn /\ ~op.timerActive
               /\ op.resumeCount = 1

C8_Witness ==
    /\ op.kind = "WaitForDisconnected"
    /\ op.phase = "Resumed"
    /\ op.result.status = "timeout"
    /\ probe.awaitedAt = ScenarioStart
    /\ now = ScenarioStart + ScenarioTimeout

\* C9: a timeout of zero or a negative value passed to waitForConnected or
\* waitForDisconnected never starts the timer and never produces a timeout
\* failure.
C9_NonPositiveNeverFires ==
    (op.kind \in WaitKinds /\ NonPositive(probe.request)) =>
        /\ op.timerStarts = 0 /\ ~op.timerActive
        /\ ~op.mTimedOut
        /\ op.result.status # "timeout"

\* C10: a read on a socket that holds data or is Unconnected is ready
\* without suspending; with data it yields data, and Unconnected without
\* data it yields the empty result.
C10_ReadReady ==
    (op.kind = "Read" /\ probe.snap.valid
       /\ (Len(probe.snap.buf) > 0 \/ probe.snap.state = UnconnectedState)) =>
        /\ probe.wasReady
        /\ op.suspensions = 0 /\ op.connects = 0 /\ op.resumeCount = 0
        /\ Len(probe.snap.buf) > 0 =>
               op.result.status = "data" /\ op.result.data # <<>>
        /\ Len(probe.snap.buf) = 0 =>
               op.result.status = "empty" /\ op.result.data = <<>>

C10_Witness ==
    /\ op.kind = "Read"
    /\ probe.snap.valid
    /\ probe.snap.state = UnconnectedState
    /\ probe.snap.buf = <<>>
    /\ probe.wasReady
    /\ op.result.status = "empty"

\* C11: a read suspended with no data is resumed by the stateChanged
\* notification that reports Unconnected, with the empty result; no state
\* has an Unconnected socket and a read still suspended on it.
C11_UnconnectedResumesRead ==
    op.kind = "Read" =>
        /\ probe.resumedBy = Event("stateChanged", UnconnectedState) =>
               /\ op.phase = "Resumed" /\ op.resumeCount = 1
               /\ op.result.status = "empty" /\ op.result.data = <<>>
        /\ (op.suspensions = 1 /\ sock.valid /\ sock.state = UnconnectedState) =>
               op.phase = "Resumed"

C11_Witness ==
    /\ op.kind = "Read"
    /\ probe.snap.buf = <<>>
    /\ probe.resumedBy = Event("stateChanged", UnconnectedState)
    /\ op.result.status = "empty"

\* C12: a suspended read is resumed by whichever of readyRead and
\* stateChanged(Unconnected) is delivered first; when the continuation runs
\* both connections are gone, and nothing delivered later changes the
\* operation.
C12_BothTornDown ==
    [][(op.kind = "Read" /\ op'.phase = "Resumed") =>
          /\ ~op'.mConn /\ ~op'.mStateConn
          /\ op'.resumeCount = 1
          /\ op.phase = "Resumed" => op' = op
          /\ op.phase = "Suspended" =>
                 probe'.resumedBy.type \in {"readyRead", "stateChanged", "destroyed"}]_vars

\* readyRead resumed the read, and the Unconnected notification delivered
\* after it found nothing to resume
C12_Witness ==
    /\ op.kind = "Read"
    /\ op.resumeCount = 1
    /\ probe.resumedBy.type = "readyRead"
    /\ sock.valid /\ sock.state = UnconnectedState
    /\ queue = <<>>

\* C18: connections and the timer are live only in the Suspended phase, at
\* most one per concern; the phase only moves Idle -> Suspended -> Resumed;
\* and in the step that runs the continuation every connection and the
\* timer are already gone.
C18_PhaseOk(o) ==
    /\ (o.mConn \/ o.mStateConn \/ o.timerActive) => o.phase = "Suspended"
    /\ o.timerStarts <= 1
    /\ o.connects <= (IF o.kind = "Read" THEN 2 ELSE 1)
    /\ o.mStateConn => o.kind = "Read"

C18_Subscriptions ==
    [][/\ C18_PhaseOk(op')
       /\ op'.phase # op.phase =>
              \/ op.phase = "Idle" /\ op'.phase = "Suspended"
              \/ op.phase = "Suspended" /\ op'.phase = "Resumed"
       /\ op'.resumeCount > op.resumeCount =>
              /\ ~op'.mConn /\ ~op'.mStateConn /\ ~op'.timerActive
              /\ op'.phase = "Resumed"]_vars

\* a read holds its two connections while suspended
C18_Witness ==
    /\ op.kind = "Read"
    /\ op.phase = "Suspended"
    /\ op.mConn /\ op.mStateConn
    /\ op.connects = 2
    /\ emitted >= 1 /\ queue = <<>>

\* C19: in waitForConnected and waitForDisconnected the timer runs only
\* with the connection to the socket's signal in place and the coroutine
\* suspended; it is started in await_suspend and nowhere else.
C19_TimerAfterConnect ==
    op.kind \in WaitKinds =>
        /\ op.timerActive => (op.mConn /\ op.phase = "Suspended")
        /\ op.timerStarts <= op.suspensions
        /\ op.timerStarts = 1 => op.connects = 1

C19_Witness ==
    /\ op.kind = "WaitForConnected"
    /\ op.timerActive /\ op.mConn
    /\ now > probe.awaitedAt

\* C20: the delivery of stateChanged to a suspended read leaves the read
\* suspended with both connections when the state is Connecting, Connected
\* or Closing, and finishes it when the state is Unconnected.
C20_Delivery ==
    /\ Head_is("stateChanged")
    /\ queue' = Tail(queue)
    /\ sock.valid
    /\ op.kind = "Read"
    /\ op.phase = "Suspended"

C20_ReadStateChanged ==
    [][C20_Delivery =>
          IF sock'.state # UnconnectedState
          THEN op' = op /\ op'.mConn /\ op'.mStateConn
          ELSE /\ op'.phase = "Resumed"
               /\ op'.resumeCount = op.resumeCount + 1
               /\ probe'.resumedBy = Head(queue)]_vars

C20_Witness ==
    /\ op.kind = "Read"
    /\ op.phase = "Suspended"
    /\ probe.snap.state = ConnectedState
    /\ sock.valid /\ sock.state = ClosingState
    /\ op.mConn /\ op.mStateConn

\* C13: when the connect request of connectToServer fails and leaves the
\* socket Unconnected, the returned awaitable completes through its
\* ready-check: it is ready and never suspends.
C13_FailedConnectIsReady ==
    (probe.via = "connectToServer" /\ probe.connect = "failed") =>
        /\ op.kind = "WaitForConnected"
        /\ probe.wasReady
        /\ op.suspensions = 0

\* the awaited value of a connect that succeeded
Success == [status |-> ConnectedState, data |-> <<>>]

Delivered == emitted - Pending("stateChanged")

TimerNeverDue == op.timerStarts = 0 \/ now < op.deadline

\* C14: awaiting connectToServer gives the same result when the socket is
\* Connected at once (ready, no suspension) as when it is Connected after
\* the notifications Connecting and Connected (suspended, resumed once).
C14_SameResult ==
    (probe.via = "connectToServer" /\ sock.valid) =>
        /\ probe.connect = "connected" =>
               /\ probe.wasReady /\ op.suspensions = 0
               /\ op.result = Success
        /\ (probe.connect = "connecting" /\ Delivered = 2) =>
               /\ ~probe.wasReady /\ op.suspensions = 1 /\ op.resumeCount = 1
               /\ op.result = Success

C14_Witness ==
    /\ probe.via = "connectToServer"
    /\ probe.connect = "connecting"
    /\ Delivered = 2
    /\ op.resumeCount = 1
    /\ op.result = Success

\* C15: from an Unconnected socket, with the driver emitting Connecting and
\* then Connected and no timeout due, the wait is still suspended after the
\* first notification and is resumed with success by the second, with no
\* timer firing.
C15_TwoNotifications ==
    (op.kind = "WaitForConnected" /\ probe.snap.valid
       /\ probe.snap.state = UnconnectedState /\ TimerNeverDue) =>
        /\ Delivered < 2 => (op.phase = "Suspended" /\ op.resumeCount = 0)
        /\ Delivered = 2 =>
               /\ op.phase = "Resumed" /\ op.resumeCount = 1
               /\ op.result = Success
               /\ probe.resumedBy = Event("stateChanged", ConnectedState)
        /\ ~op.mTimedOut /\ Pending("timeout") = 0

C15_Witness ==
    /\ op.kind = "WaitForConnected"
    /\ probe.via = ""
    /\ probe.snap.state = UnconnectedState
    /\ op.timeout_msecs > 0 /\ TimerNeverDue
    /\ Delivered = 2
    /\ op.result = Success

Workers == {dbus.workers[i] : i \in 1..Len(dbus.workers)}

\* C16: a remote call whose reply has finished when it is awaited resolves
\* without suspending and without a connection to the finished
\* notification, to the decoded reply.
C16_FinishedIsSynchronous ==
    \A w \in Workers :
        w.reply.outcome # "" /\ w.resumes = 0 =>
            /\ w.readyAtAwait
            /\ w.suspensions = 0 /\ w.connects = 0 /\ ~w.connected
            /\ w.pc = "done"
            /\ w.response.value = w.reply.value
            /\ w.printed = w.reply.value

C16_Witness ==
    \E w \in Workers :
        /\ w.readyAtAwait
        /\ w.reply.outcome = "value"
        /\ w.response.value = "PONG"
        /\ w.suspensions = 0

\* C17: when the remote side answers with an error, the await completes
\* and its result carries the error with its name and message, which the
\* caller reports; the worker runs to its end.
C17_ErrorInResult ==
    \A w \in Workers :
        w.reply.outcome = "error" =>
            /\ w.pc = "done"
            /\ w.response.error.valid
            /\ w.response.error.name = w.reply.name
            /\ w.response.error.message = w.reply.message
            /\ w.warned = w.reply.message
            /\ w.resumes <= 1 /\ ~w.connected

C17_Witness ==
    \E w \in Workers :
        /\ w.reply.outcome = "error"
        /\ w.resumes = 1
        /\ w.pc = "done"
        /\ w.warned = "no reply"

====
